---- MODULE Spec2Model ----
(***************************************************************************)
(* Model of azure-ad-token-validator: the AzureAdTokenValidator pipeline   *)
(* (constructor, loadMetadata, validate, getPublicKey), the shared         *)
(* SimpleCache, and the SimpleValidator rule engine.                       *)
(*                                                                         *)
(* Conventions.  A JavaScript string is a TLA+ string, except the scope   *)
(* claim and the scope names, which are sequences of one-character        *)
(* strings so that String.split can be computed.  undefined is Absent for *)
(* a string-valued place, and None (the empty sequence) for any other     *)
(* place; a present non-string value v is Some(v).  A message is the      *)
(* sequence of the pieces its text is concatenated from, None when the    *)
(* message is undefined.                                                   *)
(***************************************************************************)
EXTENDS Integers, Sequences, FiniteSets, TLC

VARIABLES cache, instances, calls, requests, history, pure

vars == <<cache, instances, calls, requests, history, pure>>

pipelineVars == <<cache, instances, calls, requests, history>>

(***************************************************************************)
(* Bounds of the model.                                                    *)
(***************************************************************************)
\* longest scope claim (in characters) the rule engine is applied to
MaxScpLen == 3
\* longest requiredScopes list the rule engine is applied to
MaxRequired == 2
\* longest rule list validateRules is applied to
MaxRules == 2
\* most keys in one key-set response
MaxKeys == 2
\* most setItem calls applied to one SimpleCache
MaxWrites == 3
\* validator instances constructed in one run
NumValidators == 2

(***************************************************************************)
(* JavaScript values.                                                      *)
(***************************************************************************)
Absent == "<undefined>"

None == <<>>

Some(v) == <<v>>

\* !s for a string-valued place: undefined and "" are falsy
Falsy(s) == s \in {Absent, ""}

\* a || b for string-valued places
Or(a, b) == IF Falsy(a) THEN b ELSE a

Range(s) == {s[i] : i \in DOMAIN s}

SeqsUpTo(S, n) == UNION {[1..k -> S] : k \in 0..n}

Min(S) == CHOOSE x \in S : \A y \in S : x <= y

(***************************************************************************)
(* String.prototype.split(" ") on a sequence of characters: the pieces     *)
(* between the spaces, so that the empty string gives one empty piece.     *)
(***************************************************************************)
RECURSIVE split(_)
split(s) ==
    LET spaces == {i \in DOMAIN s : s[i] = " "}
    IN  IF spaces = {}
        THEN <<s>>
        ELSE LET i == Min(spaces)
             IN  <<SubSeq(s, 1, i - 1)>> \o split(SubSeq(s, i + 1, Len(s)))

(***************************************************************************)
(* SimpleValidator.validateRules: the first failing rule's message.  A     *)
(* rule is [validate |-> function to BOOLEAN, invalidMessage |-> message]. *)
(***************************************************************************)
RECURSIVE validateRulesFrom(_, _, _)
validateRulesFrom(value, rules, i) ==
    IF i > Len(rules)
    THEN [isValid |-> TRUE, validationMessage |-> None]
    ELSE IF ~rules[i].validate[value]
         THEN [isValid |-> FALSE, validationMessage |-> rules[i].invalidMessage]
         ELSE validateRulesFrom(value, rules, i + 1)

\* the loop without its break: the last failing rule's message wins
RECURSIVE validateRulesNoBreak(_, _)
validateRulesNoBreak(value, rules) ==
    IF rules = <<>>
    THEN [isValid |-> TRUE, validationMessage |-> None]
    ELSE LET n == Len(rules)
             before == validateRulesNoBreak(value, SubSeq(rules, 1, n - 1))
         IN  IF ~rules[n].validate[value]
             THEN [isValid |-> FALSE, validationMessage |-> rules[n].invalidMessage]
             ELSE before

validateRules(value, rules) == validateRulesFrom(value, rules, 1)

(***************************************************************************)
(* validateAdditionalClaims: the three rules, in the order of the source.  *)
(* A payload is [aud, iss, tid, azp, appid : strings, scp : None or        *)
(* Some(characters)].                                                      *)
(***************************************************************************)
tenantRule(payload, tenantId) ==
    ~Falsy(payload.tid) /\ payload.tid = tenantId

\* the application rule preferring appid to azp
applicationRuleAppidFirst(payload, allowedApplicationIds) ==
    \/ allowedApplicationIds = None
    \/ Len(allowedApplicationIds[1]) = 0
    \/ /\ ~Falsy(Or(payload.appid, payload.azp))
       /\ Or(payload.appid, payload.azp) \in Range(allowedApplicationIds[1])

applicationRule(payload, allowedApplicationIds) ==
    \/ allowedApplicationIds = None
    \/ Len(allowedApplicationIds[1]) = 0
    \/ /\ ~Falsy(Or(payload.azp, payload.appid))
       /\ Or(payload.azp, payload.appid) \in Range(allowedApplicationIds[1])

\* scp?.split(" ") || []
scopesAsArray(payload) ==
    IF payload.scp = None THEN <<>> ELSE split(payload.scp[1])

scopeRule(payload, requiredScopes) ==
    \/ requiredScopes = None
    \/ Len(requiredScopes[1]) = 0
    \/ \A i \in DOMAIN requiredScopes[1] :
          requiredScopes[1][i] \in Range(scopesAsArray(payload))

TenantMessage == <<"tenantId does not match">>

ApplicationMessage == <<"authenticated applicationId not in allowed list">>

ScopeMessage == <<"required scopes missing">>

validators(payload, options) ==
    << [validate |-> [p \in {payload} |-> tenantRule(p, options.tenantId)],
        invalidMessage |-> TenantMessage],
       [validate |-> [p \in {payload} |->
                         applicationRule(p, options.allowedApplicationIds)],
        invalidMessage |-> ApplicationMessage],
       [validate |-> [p \in {payload} |-> scopeRule(p, options.requiredScopes)],
        invalidMessage |-> ScopeMessage] >>

validateAdditionalClaims(tokenPayload, options) ==
    validateRules(tokenPayload, validators(tokenPayload, options))

(***************************************************************************)
(* SimpleCache: memoryCache is an object literal, modelled as the function *)
(* from its own properties to their values.  getItem calls                 *)
(* this.memoryCache.hasOwnProperty(key): once an own property named        *)
(* "hasOwnProperty" shadows the inherited method the call throws a         *)
(* TypeError (the values stored are never functions).  An assignment to    *)
(* the property "__proto__" runs the inherited setter and creates no own   *)
(* property.                                                               *)
(***************************************************************************)
CacheTypeError == <<"TypeError: this.memoryCache.hasOwnProperty is not a function">>

getItemThrows(memoryCache, key) == "hasOwnProperty" \in DOMAIN memoryCache

\* the value getItem returns when it does not throw
getItem(memoryCache, key) ==
    IF key \in DOMAIN memoryCache THEN Some(memoryCache[key]) ELSE None

\* a setItem that keeps the entry an identifier already has
setItemKeepsFirst(memoryCache, key, value) ==
    IF key = "__proto__" \/ key \in DOMAIN memoryCache
    THEN memoryCache
    ELSE [k \in DOMAIN memoryCache \cup {key} |->
             IF k = key THEN value ELSE memoryCache[k]]

setItem(memoryCache, key, value) ==
    IF key = "__proto__"
    THEN memoryCache
    ELSE [k \in DOMAIN memoryCache \cup {key} |->
             IF k = key THEN value ELSE memoryCache[k]]

(***************************************************************************)
(* The constructor: the options are kept, tenantId and audience are        *)
(* checked, nothing is fetched.                                            *)
(***************************************************************************)
TenantIdError == <<"\"tenantId\" value was not provided">>

AudienceError == <<"\"audience\" value was not provided">>

MetadataRequest(options) ==
    [kind |-> "metadata", uri |-> options.metadataDocumentUri, appid |-> Absent]

\* a constructor that loads the metadata eagerly
constructorEagerFetch(options) ==
    IF Falsy(options.tenantId)
    THEN [threw |-> Some(TenantIdError), fetched |-> {MetadataRequest(options)}]
    ELSE IF Falsy(options.audience)
         THEN [threw |-> Some(AudienceError), fetched |-> {MetadataRequest(options)}]
         ELSE [threw |-> None, fetched |-> {MetadataRequest(options)}]

constructor(options) ==
    IF Falsy(options.tenantId)
    THEN [threw |-> Some(TenantIdError), fetched |-> {}]
    ELSE IF Falsy(options.audience)
         THEN [threw |-> Some(AudienceError), fetched |-> {}]
         ELSE [threw |-> None, fetched |-> {}]

(***************************************************************************)
(* throwFormattedError: the message of the Error it throws.  An error is   *)
(* [isAxiosError, response, request : None or Some([data, status]),        *)
(*  isError, message].                                                     *)
(***************************************************************************)
throwFormattedError(error, defaultErrorMessage) ==
    IF error.isAxiosError /\ error.response # None
    THEN <<"{data,status}", error.response[1].data, error.response[1].status>>
    ELSE IF error.isAxiosError /\ error.request # None
         THEN <<"{data,status}", error.request[1].data, error.request[1].status>>
         ELSE IF error.isError
              THEN <<error.message>>
              ELSE defaultErrorMessage

KeysDefaultError == <<"Error connecting to discovery keys endpoint">>

(***************************************************************************)
(* jsonwebtoken's decode and verify, as validate uses them.  An access     *)
(* token is [wellFormed, header : [alg, kid], payload, signature]; a       *)
(* signature is [alg, key]: the algorithm and the key it was made with     *)
(* (for RS256 the certificate whose private key signed), [alg |-> "none"]  *)
(* for the empty signature.                                                *)
(***************************************************************************)
decode(accessToken) ==
    IF accessToken.wellFormed
    THEN Some([header |-> accessToken.header,
               payload |-> accessToken.payload,
               signature |-> accessToken.signature])
    ELSE None

NoSignature == [alg |-> "none", key |-> Absent]

\* header.alg.indexOf("RS") === 0
IsRS(alg) == alg \in {"RS256", "RS384", "RS512"}

JwtError(message) == [kind |-> "JsonWebTokenError", message |-> message]

OtherError(message) == [kind |-> "Error", message |-> message]

Verified == [kind |-> "ok", message |-> None]

\* jws.verify(token, header.alg, key): "valid", "invalid", or how it throws
jwsVerify(decoded, key) ==
    LET alg == decoded.header.alg
        sig == decoded.signature
        matches(expected) == IF sig = expected THEN "valid" ELSE "invalid"
    IN  IF alg = "none"
        THEN {matches(NoSignature)}
        ELSE IF ~key.pem
             THEN IF Falsy(key.body)
                  THEN {"throws"}
                  ELSE {matches([alg |-> alg, key |-> key.body])}
             ELSE IF Falsy(key.body)
                  \* a PEM block around the text "undefined": the library
                  \* release decides whether the parse error is wrapped
                  THEN {"throws", "notAsymmetric"}
                  ELSE {matches([alg |-> alg, key |-> key.body])}

\* verify(accessToken, key, {algorithms: [alg], audience, issuer}):
\* the set of outcomes it can end with
verify(decoded, key, audience, issuer) ==
    LET hasSignature == decoded.signature # NoSignature
        hasKey == key.pem \/ ~Falsy(key.body)
    IN  IF ~hasSignature /\ hasKey
        THEN {JwtError(<<"jwt signature is required">>)}
        ELSE IF hasSignature /\ ~hasKey
        THEN {JwtError(<<"secret or public key must be provided">>)}
        ELSE { IF v = "throws"
               THEN OtherError(<<"key error">>)
               ELSE IF v = "notAsymmetric"
               THEN JwtError(<<"secretOrPublicKey must be an asymmetric key">>)
               ELSE IF v = "invalid"
               THEN JwtError(<<"invalid signature">>)
               ELSE IF decoded.payload.aud # audience
               THEN JwtError(<<"jwt audience invalid. expected: ", audience>>)
               ELSE IF issuer # None /\ decoded.payload.iss \notin Range(issuer[1])
               THEN JwtError(<<"jwt issuer invalid. expected: ">> \o issuer[1])
               ELSE Verified
             : v \in jwsVerify(decoded, key) }

(***************************************************************************)
(* getPublicKey.  Up to its await: no kid, a cache hit, or the request for *)
(* the key set.  After the await: every key of the response is stored      *)
(* under header.kid, and the cache is read again.                          *)
(***************************************************************************)
KeysRequest(metadata, payload) ==
    [kind |-> "keys",
     uri |-> IF metadata = None THEN Absent ELSE metadata[1].jwks_uri,
     appid |-> Or(payload.azp, payload.appid)]

\* getPublicKey without the check of header.kid
getPublicKeyStartNoKidCheck(decoded, memoryCache, metadata) ==
    IF getItemThrows(memoryCache, decoded.header.kid)
    THEN [returns |-> FALSE, threw |-> Some(CacheTypeError),
          publicKey |-> None, request |-> None]
    ELSE IF getItem(memoryCache, decoded.header.kid) # None
         THEN [returns |-> TRUE, threw |-> None,
               publicKey |-> getItem(memoryCache, decoded.header.kid),
               request |-> None]
         ELSE [returns |-> FALSE, threw |-> None, publicKey |-> None,
               request |-> Some(KeysRequest(metadata, decoded.payload))]

\* getPublicKey without the cache lookup
getPublicKeyStartNoCache(decoded, memoryCache, metadata) ==
    IF Falsy(decoded.header.kid)
    THEN [returns |-> TRUE, threw |-> None, publicKey |-> None, request |-> None]
    ELSE [returns |-> FALSE, threw |-> None, publicKey |-> None,
          request |-> Some(KeysRequest(metadata, decoded.payload))]

getPublicKeyStart(decoded, memoryCache, metadata) ==
    IF Falsy(decoded.header.kid)
    THEN [returns |-> TRUE, threw |-> None, publicKey |-> None, request |-> None]
    ELSE IF getItemThrows(memoryCache, decoded.header.kid)
         THEN [returns |-> FALSE, threw |-> Some(CacheTypeError),
               publicKey |-> None, request |-> None]
         ELSE IF getItem(memoryCache, decoded.header.kid) # None
              THEN [returns |-> TRUE, threw |-> None,
                    publicKey |-> getItem(memoryCache, decoded.header.kid),
                    request |-> None]
              ELSE [returns |-> FALSE, threw |-> None, publicKey |-> None,
                    request |-> Some(KeysRequest(metadata, decoded.payload))]

\* for (const publicKey of data.keys) cache.setItem(header.kid, publicKey)
RECURSIVE cacheKeys(_, _, _)
cacheKeys(memoryCache, kid, keys) ==
    IF keys = <<>>
    THEN memoryCache
    ELSE cacheKeys(setItem(memoryCache, kid, Head(keys)), kid, Tail(keys))

(***************************************************************************)
(* validate from the resolved key on: verify, then the claim rules.  Each  *)
(* completion is [threw, result, verified]: the exception's message or the *)
(* result returned, and the outcome of verify when it ran.                 *)
(***************************************************************************)
\* a result that never gets the decoded token attached
ResultWithoutDecoded(accessToken, decoded, isValid, message) ==
    [accessToken |-> accessToken, decodedAccessToken |-> None,
     isValid |-> isValid, validationMessage |-> message]

Result(accessToken, decoded, isValid, message) ==
    [accessToken |-> accessToken, decodedAccessToken |-> decoded,
     isValid |-> isValid, validationMessage |-> message]

Returns(result, verified) ==
    [threw |-> None, result |-> Some(result), verified |-> verified]

Throws(message, verified) ==
    [threw |-> Some(message), result |-> None, verified |-> verified]

DecodeMessage == <<"The access token could not be decoded">>

KeyMessage == <<"Invalid key">>

\* x5c[0]
FirstCertificate(publicKey) ==
    IF Len(publicKey.x5c) = 0 THEN Absent ELSE publicKey.x5c[1]

VerificationKey(alg, publicKey) ==
    [pem |-> IsRS(alg), body |-> FirstCertificate(publicKey)]

\* the catch block leaving isValid as it was
verifyFailedKeepsValid(accessToken, decoded, error) ==
    IF error.kind = "JsonWebTokenError"
    THEN Returns(Result(accessToken, Some(decoded), TRUE, error.message), Some(error))
    ELSE Throws(error.message, Some(error))

\* catch (error): a JsonWebTokenError becomes the result, anything else is rethrown
verifyFailed(accessToken, decoded, error) ==
    IF error.kind = "JsonWebTokenError"
    THEN Returns(Result(accessToken, Some(decoded), FALSE, error.message), Some(error))
    ELSE Throws(error.message, Some(error))

\* the claims check with its condition inverted
checkClaimsInverted(accessToken, decoded, options) ==
    LET tokenValidationResult == validateAdditionalClaims(decoded.payload, options)
    IN  IF tokenValidationResult.isValid
        THEN Returns(Result(accessToken, Some(decoded), FALSE,
                            tokenValidationResult.validationMessage),
                     Some(Verified))
        ELSE Returns(Result(accessToken, Some(decoded), TRUE, None), Some(Verified))

\* validateAdditionalClaims and the return of the result
checkClaims(accessToken, decoded, options) ==
    LET tokenValidationResult == validateAdditionalClaims(decoded.payload, options)
    IN  IF ~tokenValidationResult.isValid
        THEN Returns(Result(accessToken, Some(decoded), FALSE,
                            tokenValidationResult.validationMessage),
                     Some(Verified))
        ELSE Returns(Result(accessToken, Some(decoded), TRUE, None), Some(Verified))

\* validate running the claim rules before verify
validateAfterKeyClaimsFirst(accessToken, decoded, publicKey, options) ==
    IF publicKey = None
    THEN {Returns(Result(accessToken, Some(decoded), FALSE, KeyMessage), None)}
    ELSE IF decoded.header.alg = Absent
    THEN {Throws(<<"TypeError: Cannot read properties of undefined">>, None)}
    ELSE IF ~validateAdditionalClaims(decoded.payload, options).isValid
    THEN {Returns(Result(accessToken, Some(decoded), FALSE,
                         validateAdditionalClaims(decoded.payload, options)
                            .validationMessage),
                  None)}
    ELSE { IF v = Verified
           THEN checkClaims(accessToken, decoded, options)
           ELSE verifyFailed(accessToken, decoded, v)
         : v \in verify(decoded,
                        VerificationKey(decoded.header.alg, publicKey[1]),
                        options.audience, options.validIssuers) }

validateAfterKey(accessToken, decoded, publicKey, options) ==
    IF publicKey = None
    THEN {Returns(Result(accessToken, Some(decoded), FALSE, KeyMessage), None)}
    ELSE IF decoded.header.alg = Absent
    \* header.alg.indexOf on undefined
    THEN {Throws(<<"TypeError: Cannot read properties of undefined">>, None)}
    ELSE { IF v = Verified
           THEN checkClaims(accessToken, decoded, options)
           ELSE verifyFailed(accessToken, decoded, v)
         : v \in verify(decoded,
                        VerificationKey(decoded.header.alg, publicKey[1]),
                        options.audience, options.validIssuers) }

(***************************************************************************)
(* The identity provider and the tokens presented to the validators.       *)
(***************************************************************************)
Key(kid, x5c) == [kid |-> kid, use |-> "sig", x5t |-> kid, x5c |-> x5c]

\* the provider's signing keys: two certificates, and a key published
\* without certificate values
ProviderKeys ==
    {Key("kid1", <<"cert1">>), Key("kid2", <<"cert2">>), Key("kid3", <<>>)}

\* the provider's keys that carry a certificate
CertificateKeys == {key \in ProviderKeys : key.x5c # <<>>}

\* a key-set response lists some of the provider's keys, each once
KeySets(published) ==
    {keys \in SeqsUpTo(published, MaxKeys) :
        \A i, j \in DOMAIN keys : i # j => keys[i] # keys[j]}

TransportErrors ==
    { [isAxiosError |-> TRUE, response |-> Some([data |-> "unavailable", status |-> "503"]),
       request |-> None, isError |-> TRUE, message |-> "Request failed"],
      [isAxiosError |-> FALSE, response |-> None,
       request |-> None, isError |-> TRUE, message |-> "Network Error"] }

Failed(error) == [ok |-> FALSE, data |-> None, error |-> Some(error)]

Succeeded(data) == [ok |-> TRUE, data |-> Some(data), error |-> None]

\* what a GET of the request can be answered with, the provider publishing
\* the keys of published
Replies(request, published) ==
    {Failed(e) : e \in TransportErrors}
    \cup IF Falsy(request.uri)
         THEN {}
         ELSE IF request.kind = "metadata"
              THEN {Succeeded([jwks_uri |-> "/keys"])}
              ELSE {Succeeded([keys |-> keys]) : keys \in KeySets(published)}

BaseOptions ==
    [tenantId |-> "tenant1", audience |-> "api://app",
     metadataDocumentUri |-> "/metadata", allowedApplicationIds |-> None,
     requiredScopes |-> None, validIssuers |-> None]

\* the configurations of the key-resolution runs: a required option missing
\* or empty, or none
Options ==
    {[BaseOptions EXCEPT !.tenantId = t] : t \in {Absent, ""}}
    \cup {[BaseOptions EXCEPT !.audience = a] : a \in {Absent, ""}}
    \cup {[BaseOptions EXCEPT !.metadataDocumentUri = u] : u \in {Absent, "/metadata"}}

\* the configurations of the policy runs: one policy option set
PolicyOptions ==
    {BaseOptions}
    \cup {[BaseOptions EXCEPT !.allowedApplicationIds = Some(l)] :
             l \in {<<>>, <<"client2">>}}
    \cup {[BaseOptions EXCEPT !.requiredScopes = Some(l)] :
             l \in {<<>>, << <<"a">> >>, << <<"a">>, <<"b">> >>, << <<>> >>}}
    \cup {[BaseOptions EXCEPT !.validIssuers = Some(l)] : l \in {<<"issuer1">>}}

BasePayload ==
    [aud |-> "api://app", iss |-> "issuer1", tid |-> "tenant1",
     azp |-> Absent, appid |-> "client1", scp |-> Some(<<"a">>)]

Payloads ==
    {[BasePayload EXCEPT !.aud = "api://other"],
     [BasePayload EXCEPT !.iss = "issuer2"],
     [BasePayload EXCEPT !.azp = "client2"],
     [BasePayload EXCEPT !.tid = "tenant2", !.scp = None],
     [BasePayload EXCEPT !.aud = "api://other", !.scp = None]}
    \cup {[BasePayload EXCEPT !.tid = t] : t \in {"tenant1", "tenant2", Absent}}
    \cup {[BasePayload EXCEPT !.scp = x] :
             x \in {None, Some(<<>>), Some(<<"b">>), Some(<<"a", " ", "b">>)}}

Header(alg, kid) == [alg |-> alg, kid |-> kid]

Signature(alg, key) == [alg |-> alg, key |-> key]

\* the signatures presented: made by the provider with the private key of a
\* published certificate, or made without any such private key (an HMAC
\* keyed with a published value, another key pair, or none at all)
ProviderSignatures == {Signature("RS256", "cert1"), Signature("RS256", "cert2")}

ForgedSignatures ==
    {Signature("HS256", "cert1"), Signature("RS256", "other-cert"), NoSignature}

AccessToken(header, payload, signature) ==
    [wellFormed |-> TRUE, header |-> header, payload |-> payload,
     signature |-> signature]

Malformed ==
    [wellFormed |-> FALSE, header |-> Header(Absent, Absent),
     payload |-> BasePayload, signature |-> NoSignature]

\* the tokens of the key-resolution runs: the key identifier varies
AccessTokens ==
    {Malformed}
    \cup {AccessToken(Header("RS256", kid), BasePayload, Signature("RS256", "cert1")) :
             kid \in {Absent, "", "kid1", "kid2"}}
    \cup {AccessToken(Header(alg, "kid2"), BasePayload, Signature("RS256", "cert2")) :
             alg \in {Absent, "RS256"}}

\* the tokens of the policy runs: the algorithm, the signature and the claims
\* vary, and one token names a key identifier that is a member of
\* Object.prototype
PolicyTokens ==
    {Malformed}
    \cup {AccessToken(Header(alg, "kid1"), BasePayload, sig) :
             alg \in {Absent, "HS256", "RS256", "none"},
             sig \in {Signature("RS256", "cert1")} \cup ForgedSignatures}
    \cup {AccessToken(Header("RS256", "kid1"), payload, Signature("RS256", "cert1")) :
             payload \in Payloads}
    \cup {AccessToken(Header("RS256", "hasOwnProperty"), BasePayload,
                      Signature("RS256", "cert1"))}

(***************************************************************************)
(* State.  cache is the module-level SimpleCache's memoryCache; instances  *)
(* the validators constructed (options, metadata); calls the validate      *)
(* calls in progress, each at one of its awaits; requests the GETs in      *)
(* flight.  history records the keys received in key-set responses         *)
(* (batchKeys), the key identifiers whose resolution has returned (asked)  *)
(* and, with the validator, those it returned a key for (found); pure      *)
(* holds the arguments and the value of a rule engine application.         *)
(***************************************************************************)
Validators == 1..NumValidators

Calls == {1}

NoValidator ==
    [state |-> "none", options |-> None, metadata |-> None, threw |-> None]

IdleCall ==
    [pc |-> "idle", validator |-> 0, accessToken |-> None,
     decodedAccessToken |-> None, publicKey |-> None, response |-> None,
     threw |-> None, result |-> None, verified |-> None,
     metadataFetches |-> 0, keyFetches |-> 0]

RuleEngineCall(fn, value, rules, tokenPayload, options) ==
    [fn |-> fn, value |-> value, rules |-> rules, tokenPayload |-> tokenPayload,
     options |-> options, out |-> None]

Init ==
    /\ cache = <<>>
    /\ instances = [i \in Validators |-> NoValidator]
    /\ calls = [c \in Calls |-> IdleCall]
    /\ requests = {}
    /\ history = [batchKeys |-> {}, asked |-> {}, found |-> {}]
    /\ pure = RuleEngineCall("none", Absent, <<>>, None, None)

\* new AzureAdTokenValidator(options)
Construct(i, options) ==
    /\ instances[i].state = "none"
    /\ LET made == constructor(options)
       IN  /\ instances' = [instances EXCEPT ![i] =
                  [state |-> IF made.threw = None THEN "live" ELSE "threw",
                   options |-> Some(options), metadata |-> None,
                   threw |-> made.threw]]
           /\ requests' = requests \cup
                  {[call |-> 0, validator |-> i, request |-> r] : r \in made.fetched}
    /\ UNCHANGED <<cache, calls, history, pure>>

\* validate from the decode to the await of getPublicKey
DecodeAndGetKey(c, call, metadata) ==
    LET decoded == decode(call.accessToken[1])
    IN  IF decoded = None
        THEN /\ calls' = [calls EXCEPT ![c] = [call EXCEPT
                    !.pc = "done",
                    !.result = Some(Result(call.accessToken[1], None, FALSE,
                                           DecodeMessage))]]
             /\ UNCHANGED <<requests, history>>
        ELSE LET got == getPublicKeyStart(decoded[1], cache, metadata)
             IN  IF got.threw # None
                 THEN /\ calls' = [calls EXCEPT ![c] = [call EXCEPT
                             !.pc = "done",
                             !.decodedAccessToken = decoded,
                             !.threw = got.threw]]
                      /\ UNCHANGED <<requests, history>>
                 ELSE IF got.returns
                 THEN /\ calls' = [calls EXCEPT ![c] = [call EXCEPT
                             !.pc = "publicKey",
                             !.decodedAccessToken = decoded,
                             !.publicKey = got.publicKey]]
                      /\ history' = IF Falsy(decoded[1].header.kid)
                                    THEN history
                                    ELSE [history EXCEPT
                                             !.asked = @ \cup {decoded[1].header.kid},
                                             !.found = @ \cup
                                                 {<<decoded[1].header.kid,
                                                    call.validator>>}]
                      /\ UNCHANGED requests
                 ELSE /\ calls' = [calls EXCEPT ![c] = [call EXCEPT
                             !.pc = "getPublicKey",
                             !.decodedAccessToken = decoded,
                             !.keyFetches = @ + 1]]
                      /\ requests' = requests \cup
                             {[call |-> c, validator |-> call.validator,
                               request |-> got.request[1]]}
                      /\ UNCHANGED history

\* a validate that loads the metadata on every call
ValidateAlwaysLoads(c, i, accessToken) ==
    /\ calls[c].pc = "idle"
    /\ instances[i].state = "live"
    /\ calls' = [calls EXCEPT ![c] = [IdleCall EXCEPT
           !.validator = i, !.accessToken = Some(accessToken),
           !.pc = "loadMetadata", !.metadataFetches = @ + 1]]
    /\ requests' = requests \cup
           {[call |-> c, validator |-> i,
             request |-> MetadataRequest(instances[i].options[1])]}
    /\ UNCHANGED <<cache, instances, history, pure>>

\* validator.validate(accessToken), to its first await
Validate(c, i, accessToken) ==
    /\ calls[c].pc = "idle"
    /\ instances[i].state = "live"
    /\ LET call == [IdleCall EXCEPT !.validator = i,
                                    !.accessToken = Some(accessToken)]
       IN  IF instances[i].metadata = None
           THEN /\ calls' = [calls EXCEPT ![c] = [call EXCEPT
                       !.pc = "loadMetadata", !.metadataFetches = @ + 1]]
                /\ requests' = requests \cup
                       {[call |-> c, validator |-> i,
                         request |-> MetadataRequest(instances[i].options[1])]}
                /\ UNCHANGED history
           ELSE DecodeAndGetKey(c, call, instances[i].metadata)
    /\ UNCHANGED <<cache, instances, pure>>

\* the identity provider answers the request of a call, or the transport fails
Reply(c, reply) ==
    /\ calls[c].pc \in {"loadMetadata", "getPublicKey"}
    /\ calls[c].response = None
    /\ \E r \in requests :
          /\ r.call = c
          /\ requests' = requests \ {r}
    /\ calls' = [calls EXCEPT ![c].response = Some(reply)]
    /\ UNCHANGED <<cache, instances, history, pure>>

\* the replies the request of call c can get
RepliesTo(c, published) ==
    UNION {Replies(r.request, published) : r \in {q \in requests : q.call = c}}

\* a loadMetadata that fetches once more after a failure
ResumeLoadMetadataRetries(c) ==
    /\ calls[c].pc = "loadMetadata"
    /\ calls[c].response # None
    /\ LET reply == calls[c].response[1]
       IN  IF reply.ok
           THEN /\ instances' = [instances EXCEPT
                       ![calls[c].validator].metadata = reply.data]
                /\ calls' = [calls EXCEPT ![c].pc = "metadataLoaded",
                                          ![c].response = None]
                /\ UNCHANGED requests
           ELSE IF calls[c].metadataFetches < 2
           THEN /\ calls' = [calls EXCEPT ![c].response = None,
                                          ![c].metadataFetches = @ + 1]
                /\ requests' = requests \cup
                       {[call |-> c, validator |-> calls[c].validator,
                         request |-> MetadataRequest(
                                        instances[calls[c].validator].options[1])]}
                /\ UNCHANGED instances
           ELSE /\ calls' = [calls EXCEPT
                       ![c].pc = "done", ![c].response = None,
                       ![c].threw = Some(throwFormattedError(reply.error[1], None))]
                /\ UNCHANGED <<instances, requests>>
    /\ UNCHANGED <<cache, history, pure>>

\* a loadMetadata whose catch block swallows the error
ResumeLoadMetadataSwallows(c) ==
    /\ calls[c].pc = "loadMetadata"
    /\ calls[c].response # None
    /\ LET reply == calls[c].response[1]
       IN  IF reply.ok
           THEN /\ instances' = [instances EXCEPT
                       ![calls[c].validator].metadata = reply.data]
                /\ calls' = [calls EXCEPT ![c].pc = "metadataLoaded",
                                          ![c].response = None]
           ELSE /\ calls' = [calls EXCEPT ![c].pc = "metadataLoaded",
                                          ![c].response = None]
                /\ UNCHANGED instances
    /\ UNCHANGED <<cache, requests, history, pure>>

\* loadMetadata after its await: the document is kept, or the error rethrown
ResumeLoadMetadata(c) ==
    /\ calls[c].pc = "loadMetadata"
    /\ calls[c].response # None
    /\ LET reply == calls[c].response[1]
       IN  IF reply.ok
           THEN /\ instances' = [instances EXCEPT
                       ![calls[c].validator].metadata = reply.data]
                /\ calls' = [calls EXCEPT ![c].pc = "metadataLoaded",
                                          ![c].response = None]
           ELSE /\ calls' = [calls EXCEPT
                       ![c].pc = "done", ![c].response = None,
                       ![c].threw = Some(throwFormattedError(reply.error[1], None))]
                /\ UNCHANGED instances
    /\ UNCHANGED <<cache, requests, history, pure>>

\* validate after the await of loadMetadata
ResumeValidate(c) ==
    /\ calls[c].pc = "metadataLoaded"
    /\ DecodeAndGetKey(c, calls[c], instances[calls[c].validator].metadata)
    /\ UNCHANGED <<cache, instances, pure>>

\* a getPublicKey whose catch block swallows the error
ResumeGetPublicKeySwallows(c) ==
    /\ calls[c].pc = "getPublicKey"
    /\ calls[c].response # None
    /\ LET reply == calls[c].response[1]
           kid == calls[c].decodedAccessToken[1].header.kid
           stored == IF reply.ok
                     THEN cacheKeys(cache, kid, reply.data[1].keys)
                     ELSE cache
       IN  /\ cache' = stored
           /\ IF getItemThrows(stored, kid)
              THEN /\ calls' = [calls EXCEPT
                          ![c].pc = "done",
                          ![c].threw = Some(CacheTypeError)]
                   /\ UNCHANGED history
              ELSE /\ calls' = [calls EXCEPT
                          ![c].pc = "publicKey",
                          ![c].publicKey = getItem(stored, kid)]
                   /\ history' = [history EXCEPT
                          !.batchKeys = @ \cup (IF reply.ok
                                                THEN Range(reply.data[1].keys)
                                                ELSE {}),
                          !.asked = @ \cup {kid},
                          !.found = IF getItem(stored, kid) = None
                                    THEN @
                                    ELSE @ \cup {<<kid, calls[c].validator>>}]
    /\ UNCHANGED <<instances, requests, pure>>

\* getPublicKey after its await: the keys are cached and the cache read again
ResumeGetPublicKey(c) ==
    /\ calls[c].pc = "getPublicKey"
    /\ calls[c].response # None
    /\ LET reply == calls[c].response[1]
           kid == calls[c].decodedAccessToken[1].header.kid
       IN  IF reply.ok
           THEN LET stored == cacheKeys(cache, kid, reply.data[1].keys)
                IN  /\ cache' = stored
                    /\ IF getItemThrows(stored, kid)
                       THEN /\ calls' = [calls EXCEPT
                                   ![c].pc = "done",
                                   ![c].threw = Some(CacheTypeError)]
                            /\ history' = [history EXCEPT
                                   !.batchKeys = @ \cup Range(reply.data[1].keys)]
                       ELSE /\ calls' = [calls EXCEPT
                                   ![c].pc = "publicKey",
                                   ![c].publicKey = getItem(stored, kid)]
                            /\ history' = [history EXCEPT
                                   !.batchKeys = @ \cup Range(reply.data[1].keys),
                                   !.asked = @ \cup {kid},
                                   !.found = IF getItem(stored, kid) = None
                                             THEN @
                                             ELSE @ \cup {<<kid, calls[c].validator>>}]
           ELSE /\ calls' = [calls EXCEPT
                       ![c].pc = "done", ![c].response = None,
                       ![c].threw = Some(throwFormattedError(reply.error[1],
                                                             KeysDefaultError))]
                /\ UNCHANGED <<cache, history>>
    /\ UNCHANGED <<instances, requests, pure>>

\* validate after the await of getPublicKey: verify, the claim rules, the result
ResumeVerify(c) ==
    /\ calls[c].pc = "publicKey"
    /\ \E end \in validateAfterKey(calls[c].accessToken[1],
                                   calls[c].decodedAccessToken[1],
                                   calls[c].publicKey,
                                   instances[calls[c].validator].options[1]) :
          calls' = [calls EXCEPT ![c].pc = "done", ![c].threw = end.threw,
                                 ![c].result = end.result,
                                 ![c].verified = end.verified]
    /\ UNCHANGED <<cache, instances, requests, history, pure>>

\* the caller takes the result or the exception
Settle(c) ==
    /\ calls[c].pc = "done"
    /\ calls' = [calls EXCEPT ![c] = IdleCall]
    /\ UNCHANGED <<cache, instances, requests, history, pure>>

Next ==
    \/ \E i \in Validators, options \in Options : Construct(i, options)
    \/ \E c \in Calls, i \in Validators, accessToken \in AccessTokens :
          Validate(c, i, accessToken)
    \/ \E c \in Calls : \E reply \in RepliesTo(c, ProviderKeys) : Reply(c, reply)
    \/ \E c \in Calls : ResumeLoadMetadata(c)
    \/ \E c \in Calls : ResumeValidate(c)
    \/ \E c \in Calls : ResumeGetPublicKey(c)
    \/ \E c \in Calls : ResumeVerify(c)
    \/ \E c \in Calls : Settle(c)

Spec == Init /\ [][Next]_vars

\* one validator, its policy options and the claims of the token varying,
\* every published key carrying a certificate
NextPolicy ==
    \/ \E options \in PolicyOptions : Construct(1, options)
    \/ \E c \in Calls, accessToken \in PolicyTokens : Validate(c, 1, accessToken)
    \/ \E c \in Calls : \E reply \in RepliesTo(c, CertificateKeys) : Reply(c, reply)
    \/ \E c \in Calls : ResumeLoadMetadata(c)
    \/ \E c \in Calls : ResumeValidate(c)
    \/ \E c \in Calls : ResumeGetPublicKey(c)
    \/ \E c \in Calls : ResumeVerify(c)
    \/ \E c \in Calls : Settle(c)

SpecPolicy == Init /\ [][NextPolicy]_vars

(***************************************************************************)
(* Concurrent validate calls: two calls in progress at once, on one        *)
(* validator or on two, interleaved at their awaits.  The configuration    *)
(* is the base one and the tokens name one of two key identifiers, so      *)
(* that the calls race on the discovery fetch and on the key-set fetch.    *)
(***************************************************************************)
RaceCalls == {1, 2}

RaceValidators == {1, 2}

RaceTokens ==
    {AccessToken(Header("RS256", "kid1"), BasePayload, Signature("RS256", "cert1")),
     AccessToken(Header("RS256", "kid2"), BasePayload, Signature("RS256", "cert2"))}

\* the replies of the concurrent runs: those of the policy runs, with one
\* kind of transport failure
RaceRepliesTo(c) ==
    {reply \in RepliesTo(c, CertificateKeys) :
        reply.ok \/ ~reply.error[1].isAxiosError}

InitRace ==
    /\ cache = <<>>
    /\ instances = [i \in Validators |-> NoValidator]
    /\ calls = [c \in RaceCalls |-> IdleCall]
    /\ requests = {}
    /\ history = [batchKeys |-> {}, asked |-> {}, found |-> {}]
    /\ pure = RuleEngineCall("none", Absent, <<>>, None, None)

NextRace ==
    \/ \E i \in RaceValidators : Construct(i, BaseOptions)
    \/ \E c \in RaceCalls, i \in RaceValidators, accessToken \in RaceTokens :
          Validate(c, i, accessToken)
    \/ \E c \in RaceCalls : \E reply \in RaceRepliesTo(c) : Reply(c, reply)
    \/ \E c \in RaceCalls : ResumeLoadMetadata(c)
    \/ \E c \in RaceCalls : ResumeValidate(c)
    \/ \E c \in RaceCalls : ResumeGetPublicKey(c)
    \/ \E c \in RaceCalls : ResumeVerify(c)
    \/ \E c \in RaceCalls : Settle(c)

SpecRace == InitRace /\ [][NextRace]_vars

(***************************************************************************)
(* Two validators configured with different discovery documents, sharing   *)
(* the module-level cache; one of the tokens names a key identifier that   *)
(* is a member of Object.prototype.                                        *)
(***************************************************************************)
SharedOptions ==
    {[BaseOptions EXCEPT !.metadataDocumentUri = u] : u \in {"/metadata", "/metadata2"}}

SharedTokens ==
    {AccessToken(Header("RS256", kid), BasePayload, Signature("RS256", "cert1")) :
        kid \in {"kid1", "kid2", "hasOwnProperty"}}

NextShared ==
    \/ \E i \in RaceValidators, options \in SharedOptions : Construct(i, options)
    \/ \E c \in Calls, i \in RaceValidators, accessToken \in SharedTokens :
          Validate(c, i, accessToken)
    \/ \E c \in Calls : \E reply \in RaceRepliesTo(c) : Reply(c, reply)
    \/ \E c \in Calls : ResumeLoadMetadata(c)
    \/ \E c \in Calls : ResumeValidate(c)
    \/ \E c \in Calls : ResumeGetPublicKey(c)
    \/ \E c \in Calls : ResumeVerify(c)
    \/ \E c \in Calls : Settle(c)

SpecShared == Init /\ [][NextShared]_vars

(***************************************************************************)
(* The rule engine applied to drawn arguments: validateRules to any rule   *)
(* list over two values, validateAdditionalClaims to any claims and        *)
(* policy options.                                                         *)
(***************************************************************************)
Values == {"OK", "NOPE"}

Rules ==
    [validate : [Values -> BOOLEAN],
     invalidMessage : {<<"too short">>, <<"does not start with #">>}]

Characters == {"a", "b", " "}

ScopeClaims == {None} \cup {Some(x) : x \in SeqsUpTo(Characters, MaxScpLen)}

ScopeNames == {<<>>, <<"a">>, <<"b">>}

ClaimSets ==
    [aud : {"api://app"}, iss : {"issuer1"},
     tid : {Absent, "", "tenant1", "tenant2"},
     azp : {Absent, "", "client1", "client2"},
     appid : {Absent, "", "client1", "client2"},
     scp : ScopeClaims]

ClaimOptions ==
    {[BaseOptions EXCEPT !.allowedApplicationIds = allowed, !.requiredScopes = required] :
        allowed \in {None, Some(<<>>), Some(<<"client1">>),
                     Some(<<"client2", "client1">>), Some(<<"">>)},
        required \in {None} \cup {Some(l) : l \in SeqsUpTo(ScopeNames, MaxRequired)}}

InitClaims ==
    /\ cache = <<>>
    /\ instances = [i \in Validators |-> NoValidator]
    /\ calls = [c \in Calls |-> IdleCall]
    /\ requests = {}
    /\ history = [batchKeys |-> {}, asked |-> {}, found |-> {}]
    /\ \/ \E value \in Values, rules \in SeqsUpTo(Rules, MaxRules) :
             pure = RuleEngineCall("validateRules", value, rules, None, None)
       \/ \E payload \in ClaimSets, options \in ClaimOptions :
             pure = RuleEngineCall("validateAdditionalClaims", Absent, <<>>,
                                   Some(payload), Some(options))

ApplyValidateRules ==
    /\ pure.fn = "validateRules"
    /\ pure.out = None
    /\ pure' = [pure EXCEPT !.out = Some(validateRules(pure.value, pure.rules))]
    /\ UNCHANGED pipelineVars

ApplyValidateAdditionalClaims ==
    /\ pure.fn = "validateAdditionalClaims"
    /\ pure.out = None
    /\ pure' = [pure EXCEPT
           !.out = Some(validateAdditionalClaims(pure.tokenPayload[1],
                                                 pure.options[1]))]
    /\ UNCHANGED pipelineVars

NextClaims == ApplyValidateRules \/ ApplyValidateAdditionalClaims

SpecClaims == InitClaims /\ [][NextClaims]_vars

(***************************************************************************)
(* SimpleCache applied to drawn arguments: any sequence of setItem calls,  *)
(* each followed by any number of getItem calls.  pure holds the last      *)
(* call, what it returned or that it threw, and the setItem calls so far.  *)
(***************************************************************************)
Identifiers == {"kid1", "kid2", "hasOwnProperty", "__proto__"}

CacheCall(fn, key, value, out, threw, writes) ==
    [fn |-> fn, key |-> key, value |-> value, out |-> out, threw |-> threw,
     writes |-> writes]

InitCache ==
    /\ cache = <<>>
    /\ instances = [i \in Validators |-> NoValidator]
    /\ calls = [c \in Calls |-> IdleCall]
    /\ requests = {}
    /\ history = [batchKeys |-> {}, asked |-> {}, found |-> {}]
    /\ pure = CacheCall("none", Absent, None, None, FALSE, <<>>)

\* cache.setItem(key, value)
ApplySetItem(key, value) ==
    /\ Len(pure.writes) < MaxWrites
    /\ cache' = setItem(cache, key, value)
    /\ pure' = CacheCall("setItem", key, Some(value), None, FALSE,
                         Append(pure.writes, <<key, value>>))
    /\ UNCHANGED <<instances, calls, requests, history>>

\* cache.getItem(key)
ApplyGetItem(key) ==
    /\ pure' = IF getItemThrows(cache, key)
               THEN CacheCall("getItem", key, None, None, TRUE, pure.writes)
               ELSE CacheCall("getItem", key, None, getItem(cache, key), FALSE,
                              pure.writes)
    /\ UNCHANGED <<cache, instances, calls, requests, history>>

NextCache ==
    \/ \E key \in Identifiers, value \in CertificateKeys : ApplySetItem(key, value)
    \/ \E key \in Identifiers : ApplyGetItem(key)

SpecCache == InitCache /\ [][NextCache]_vars

(***************************************************************************)
(* Properties.                                                             *)
(***************************************************************************)
OptionsOf(call) == instances[call.validator].options[1]

DecodedOf(call) == decode(call.accessToken[1])

Returned(call) == call.pc = "done" /\ call.result # None

\* how verify can end on the key the call resolved
VerifyOutcomes(call) ==
    verify(DecodedOf(call)[1],
           VerificationKey(DecodedOf(call)[1].header.alg, call.publicKey[1]),
           OptionsOf(call).audience, OptionsOf(call).validIssuers)

\* verify, on the key the call resolved, can only end without an error
SignatureVerifies(call) ==
    call.publicKey # None /\ VerifyOutcomes(call) = {Verified}

TenantPasses(call) ==
    tenantRule(DecodedOf(call)[1].payload, OptionsOf(call).tenantId)

ApplicationPasses(call) ==
    applicationRule(DecodedOf(call)[1].payload, OptionsOf(call).allowedApplicationIds)

ScopePasses(call) ==
    scopeRule(DecodedOf(call)[1].payload, OptionsOf(call).requiredScopes)

\* C1: a call that ends (both fetches having succeeded where they were made)
\* on a token that decodes, with a key resolved, verify succeeding and the
\* tenant, application and scope rules passing, returns isValid = TRUE with
\* no validationMessage.
C1_ValidTokenAccepted ==
    \A c \in Calls :
        LET call == calls[c]
        IN  ( /\ call.pc = "done"
              /\ DecodedOf(call) # None
              /\ SignatureVerifies(call)
              /\ TenantPasses(call) /\ ApplicationPasses(call) /\ ScopePasses(call) )
            => /\ call.threw = None
               /\ call.result = Some(Result(call.accessToken[1], DecodedOf(call),
                                            TRUE, None))

C1_Witness ==
    \E c \in Calls :
        /\ Returned(calls[c])
        /\ calls[c].result[1].isValid
        /\ calls[c].result[1].validationMessage = None
        /\ calls[c].metadataFetches = 1
        /\ calls[c].keyFetches = 1

\* C2: a result with isValid = TRUE is returned only when the token was
\* decoded, a key was resolved, verify succeeded and the three rules passed;
\* a returned result whose decode, key, verify or claims stage failed has
\* isValid = FALSE and that stage's message.
C2_StagesDecideResult ==
    \A c \in Calls :
        LET call == calls[c]
            result == call.result[1]
            decoded == DecodedOf(call)
            rulesPass == TenantPasses(call) /\ ApplicationPasses(call)
                         /\ ScopePasses(call)
        IN  /\ ( /\ call.pc = "done" /\ call.verified # None
                 /\ call.verified[1].kind = "JsonWebTokenError" ) => Returned(call)
            /\ Returned(call) =>
              /\ result.isValid =>
                    /\ decoded # None /\ call.decodedAccessToken = decoded
                    /\ call.publicKey # None
                    /\ SignatureVerifies(call)
                    /\ rulesPass
              /\ decoded = None =>
                    ~result.isValid /\ result.validationMessage = DecodeMessage
              /\ (decoded # None /\ call.publicKey = None) =>
                    ~result.isValid /\ result.validationMessage = KeyMessage
              /\ (decoded # None /\ call.publicKey # None /\ ~SignatureVerifies(call)) =>
                    /\ ~result.isValid
                    /\ call.verified # None
                    /\ call.verified[1] \in VerifyOutcomes(call)
                    /\ call.verified[1].kind = "JsonWebTokenError"
                    /\ result.validationMessage = call.verified[1].message
              /\ (decoded # None /\ SignatureVerifies(call) /\ ~rulesPass) =>
                    /\ ~result.isValid
                    /\ result.validationMessage =
                          IF ~TenantPasses(call) THEN TenantMessage
                          ELSE IF ~ApplicationPasses(call) THEN ApplicationMessage
                          ELSE ScopeMessage

C2_Witness ==
    \E c \in Calls :
        /\ Returned(calls[c])
        /\ ~calls[c].result[1].isValid
        /\ calls[c].publicKey # None
        /\ calls[c].result[1].validationMessage = <<"invalid signature">>

\* C3: no call returns isValid = TRUE for a token whose signature was made
\* without the private key of a certificate the provider publishes, whatever
\* algorithm its header declares.
C3_ForgedTokenRejected ==
    \A c \in Calls :
        ( /\ Returned(calls[c])
          /\ calls[c].accessToken[1].signature \in ForgedSignatures )
        => ~calls[c].result[1].isValid

\* the messages of the errors thrown for a failed fetch
TransportMessages ==
    {throwFormattedError(e, d) : e \in TransportErrors, d \in {None, KeysDefaultError}}

\* C4: a call throws only for a failed discovery or key-set fetch: when the
\* fetches succeed it returns a result, whatever is wrong with the token or
\* the resolved key.
C4_ThrowsOnlyForTransport ==
    \A c \in Calls :
        (calls[c].pc = "done" /\ calls[c].threw # None)
        => calls[c].threw[1] \in TransportMessages

KidsOf(keys) == {key.kid : key \in keys}

\* C5: once a key-set response of several keys has been processed, each of
\* its keys is in the cache under its own kid, and no call fetches the key
\* set for a kid that a processed response contained.
C5_BatchCached ==
    \A c \in Calls :
        LET call == calls[c]
        IN  /\ ( /\ call.pc = "publicKey"
                 /\ call.response # None
                 /\ Len(call.response[1].data[1].keys) >= 2 )
               => \A key \in Range(call.response[1].data[1].keys) :
                     getItem(cache, key.kid) = Some(key)
            /\ call.pc = "getPublicKey"
               => call.decodedAccessToken[1].header.kid \notin KidsOf(history.batchKeys)

\* C6 as stated: no call fetches the key set for a kid whose resolution has
\* already returned once.
C6_SecondResolutionNoFetch ==
    \A c \in Calls :
        calls[c].pc = "getPublicKey"
        => calls[c].decodedAccessToken[1].header.kid \notin history.asked

\* C6 amended: no call fetches the key set for a kid whose resolution, on any
\* validator, has already returned a key.
C6_ResolvedKeyNotRefetched ==
    \A c \in Calls :
        calls[c].pc = "getPublicKey"
        => \A i \in Validators :
              <<calls[c].decodedAccessToken[1].header.kid, i>> \notin history.found

\* a key found by one validator is resolved on another without a fetch
C6_Witness ==
    \E c \in Calls, i \in Validators :
        /\ calls[c].pc = "publicKey"
        /\ calls[c].publicKey # None
        /\ calls[c].keyFetches = 0
        /\ i # calls[c].validator
        /\ <<calls[c].decodedAccessToken[1].header.kid, i>> \in history.found

RequiredMissing(options) ==
    Falsy(options.tenantId) \/ Falsy(options.audience)

\* C7: a validator constructed without a tenantId or without an audience
\* (missing or empty) is not created: the constructor throws its error; and
\* no construction, failed or not, issues a request.
C7_ConstructionFailsWithoutFetch ==
    /\ \A i \in Validators :
          instances[i].state # "none" =>
             LET options == instances[i].options[1]
             IN  /\ RequiredMissing(options) =>
                       /\ instances[i].state = "threw"
                       /\ instances[i].threw =
                             Some(IF Falsy(options.tenantId)
                                  THEN TenantIdError ELSE AudienceError)
                 /\ ~RequiredMissing(options) => instances[i].state = "live"
    /\ \A r \in requests : r.call \in Calls

C7_Witness ==
    \E i \in Validators :
        /\ instances[i].state = "threw"
        /\ ~Falsy(instances[i].options[1].tenantId)
        /\ instances[i].options[1].audience = ""
        /\ instances[i].threw = Some(AudienceError)
        /\ requests = {}

\* C8: a validator constructed with tenantId, audience or metadataDocumentUri
\* missing is not created.
C8_RequiredOptionsChecked ==
    \A i \in Validators :
        ( /\ instances[i].state # "none"
          /\ \/ RequiredMissing(instances[i].options[1])
             \/ Falsy(instances[i].options[1].metadataDocumentUri) )
        => instances[i].state = "threw"

\* C9: validateRules returns the message of the first rule of the list that
\* fails, and isValid = TRUE without a message when none fails; so
\* validateAdditionalClaims reports the tenant rule before the application
\* rule, and that before the scope rule.
C9_FirstFailingRule ==
    /\ (pure.fn = "validateRules" /\ pure.out # None) =>
          LET failing == {i \in DOMAIN pure.rules :
                             ~pure.rules[i].validate[pure.value]}
          IN  pure.out[1] =
                 IF failing = {}
                 THEN [isValid |-> TRUE, validationMessage |-> None]
                 ELSE [isValid |-> FALSE,
                       validationMessage |-> pure.rules[Min(failing)].invalidMessage]
    /\ (pure.fn = "validateAdditionalClaims" /\ pure.out # None) =>
          LET payload == pure.tokenPayload[1]
              options == pure.options[1]
          IN  pure.out[1] =
                 IF ~tenantRule(payload, options.tenantId)
                 THEN [isValid |-> FALSE, validationMessage |-> TenantMessage]
                 ELSE IF ~applicationRule(payload, options.allowedApplicationIds)
                 THEN [isValid |-> FALSE, validationMessage |-> ApplicationMessage]
                 ELSE IF ~scopeRule(payload, options.requiredScopes)
                 THEN [isValid |-> FALSE, validationMessage |-> ScopeMessage]
                 ELSE [isValid |-> TRUE, validationMessage |-> None]

\* claims failing the tenant rule and the scope rule get the tenant message
C9_Witness ==
    /\ pure.fn = "validateAdditionalClaims"
    /\ pure.out # None
    /\ ~tenantRule(pure.tokenPayload[1], pure.options[1].tenantId)
    /\ ~scopeRule(pure.tokenPayload[1], pure.options[1].requiredScopes)
    /\ pure.out[1].validationMessage = TenantMessage

\* the entries of the scope claim, an absent or empty claim having none
ScopeEntries(payload) ==
    IF payload.scp = None \/ payload.scp[1] = <<>>
    THEN {}
    ELSE Range(split(payload.scp[1]))

\* C10: for a token that passes verify and the tenant and application rules,
\* the result is isValid = FALSE with "required scopes missing" exactly when
\* requiredScopes is non-empty and some required scope is not an entry of
\* the scope claim, an absent or empty claim having no entries.
C10_ScopeRule ==
    \A c \in Calls :
        LET call == calls[c]
            required == OptionsOf(call).requiredScopes
        IN  ( /\ Returned(call)
              /\ DecodedOf(call) # None
              /\ SignatureVerifies(call)
              /\ TenantPasses(call) /\ ApplicationPasses(call) )
            => ( call.result[1] = Result(call.accessToken[1], DecodedOf(call),
                                         FALSE, ScopeMessage)
                 <=> /\ required # None
                     /\ \E i \in DOMAIN required[1] :
                           required[1][i] \notin
                              ScopeEntries(DecodedOf(call)[1].payload) )

ClaimMessages == {TenantMessage, ApplicationMessage, ScopeMessage}

\* C11: a returned result for a decoded token whose verify, on the key
\* resolved, cannot succeed is isValid = FALSE with the message of verify's
\* JsonWebTokenError, never the message of a claim rule, whether or not the
\* claims would pass the rules; for a correctly signed token with the wrong
\* audience that message is the audience message.
C11_VerifyFailurePrecedesClaims ==
    \A c \in Calls :
        LET call == calls[c]
            result == call.result[1]
        IN  ( /\ Returned(call)
              /\ DecodedOf(call) # None
              /\ call.publicKey # None
              /\ Verified \notin VerifyOutcomes(call) )
            => /\ ~result.isValid
               /\ call.verified # None
               /\ call.verified[1] \in VerifyOutcomes(call)
               /\ result.validationMessage = call.verified[1].message
               /\ result.validationMessage \notin ClaimMessages
               /\ ( /\ jwsVerify(DecodedOf(call)[1],
                                  VerificationKey(DecodedOf(call)[1].header.alg,
                                                  call.publicKey[1])) = {"valid"}
                    /\ DecodedOf(call)[1].payload.aud # OptionsOf(call).audience )
                  => result.validationMessage =
                        <<"jwt audience invalid. expected: ", OptionsOf(call).audience>>

\* a token with the wrong audience and without a required scope gets the
\* audience message
C11_Witness ==
    \E c \in Calls :
        /\ Returned(calls[c])
        /\ calls[c].publicKey # None
        /\ DecodedOf(calls[c])[1].payload.aud # OptionsOf(calls[c]).audience
        /\ ~ScopePasses(calls[c])
        /\ calls[c].result[1].validationMessage =
              <<"jwt audience invalid. expected: ", OptionsOf(calls[c]).audience>>

\* C12: every result returned carries the token it was given, and the
\* decoded token (header, payload, signature) when the token decodes,
\* whatever the verdict; its decoded token is null exactly when the token
\* does not decode.
C12_ResultCarriesToken ==
    \A c \in Calls :
        LET call == calls[c]
        IN  Returned(call) =>
               /\ call.result[1].accessToken = call.accessToken[1]
               /\ call.result[1].decodedAccessToken = DecodedOf(call)
               /\ call.accessToken[1].wellFormed =>
                     call.result[1].decodedAccessToken =
                        Some([header |-> call.accessToken[1].header,
                              payload |-> call.accessToken[1].payload,
                              signature |-> call.accessToken[1].signature])
               /\ (call.result[1].decodedAccessToken = None)
                     <=> ~call.accessToken[1].wellFormed

\* an "Invalid key" result carrying the decoded token
C12_Witness ==
    \E c \in Calls :
        /\ Returned(calls[c])
        /\ calls[c].result[1].validationMessage = KeyMessage
        /\ calls[c].keyFetches = 1
        /\ calls[c].result[1].decodedAccessToken # None
        /\ calls[c].result[1].decodedAccessToken = DecodedOf(calls[c])

\* the setItem calls so far that wrote identifier k
WritesOf(k) == {i \in DOMAIN pure.writes : pure.writes[i][1] = k}

Max(S) == CHOOSE x \in S : \A y \in S : y <= x

\* C13: a getItem(k) never throws; it returns the value of the last
\* setItem(k, v) when there was one, whatever was set under other
\* identifiers since, and absent when k was never set.
C13_CacheRoundTrip ==
    pure.fn = "getItem" =>
        /\ ~pure.threw
        /\ pure.out = IF WritesOf(pure.key) = {}
                      THEN None
                      ELSE Some(pure.writes[Max(WritesOf(pure.key))][2])

\* C14: a validate call started on an instance whose discovery fetch has
\* completed successfully issues no discovery request, and the metadata of
\* such an instance stays as it is, whatever the calls in between ended with.
C14_MetadataFetchedOnce ==
    [][ /\ \A c \in Calls :
              ( /\ calls[c].pc = "idle"
                /\ calls'[c].pc # "idle"
                /\ instances[calls'[c].validator].metadata # None )
              => /\ calls'[c].pc # "loadMetadata"
                 /\ calls'[c].metadataFetches = 0
                 /\ \A r \in requests' \ requests : r.request.kind # "metadata"
        /\ \A i \in Validators :
              instances[i].metadata # None
              => instances'[i].metadata = instances[i].metadata ]_vars

\* a call on an instance with its metadata resolved that fetched the key set,
\* the fetch failing, without a discovery fetch
C14_Witness ==
    \E c \in Calls :
        /\ calls[c].pc = "done"
        /\ calls[c].threw # None
        /\ calls[c].metadataFetches = 0
        /\ calls[c].keyFetches = 1
        /\ instances[calls[c].validator].metadata # None

\* the call's key-set fetch succeeded and the response has no key with the
\* key identifier of the token
KeyNotInResponse(call) ==
    /\ call.pc \in {"publicKey", "done"}
    /\ call.keyFetches = 1
    /\ call.response # None
    /\ call.response[1].ok
    /\ call.decodedAccessToken[1].header.kid
          \notin KidsOf(Range(call.response[1].data[1].keys))

\* C15: when the key-set fetch of a call succeeds and the response has no
\* key whose kid is the kid of the token, the call resolves no key and, when
\* it ends, returns isValid = FALSE with "Invalid key".
C15_MissingKeyInvalid ==
    \A c \in Calls :
        KeyNotInResponse(calls[c]) =>
           /\ calls[c].publicKey = None
           /\ calls[c].pc = "done" =>
                 /\ calls[c].threw = None
                 /\ calls[c].result =
                       Some(Result(calls[c].accessToken[1], DecodedOf(calls[c]),
                                   FALSE, KeyMessage))

\* C16: every cache entry under identifier k is a key of a key-set response
\* whose own kid is k, and the key a call resolves has the kid of the
\* token's header.
C16_CacheEntryHasItsKid ==
    /\ \A k \in DOMAIN cache :
          cache[k] \in history.batchKeys /\ cache[k].kid = k
    /\ \A c \in Calls :
          (calls[c].pc \in {"publicKey", "done"} /\ calls[c].publicKey # None)
          => calls[c].publicKey[1].kid = calls[c].decodedAccessToken[1].header.kid

\* the call has ended after a key-set fetch of its own that succeeded
FetchedKeys(call) ==
    /\ call.pc = "done"
    /\ call.keyFetches = 1
    /\ call.response # None
    /\ call.response[1].ok

\* how the call ends when run alone, from an empty cache, against the
\* key-set response it received: on the last key of the response
AloneCompletions(call) ==
    LET keys == call.response[1].data[1].keys
    IN  validateAfterKey(call.accessToken[1], call.decodedAccessToken[1],
                         IF keys = <<>> THEN None ELSE Some(keys[Len(keys)]),
                         instances[call.validator].options[1])

Completion(call) ==
    [threw |-> call.threw, result |-> call.result, verified |-> call.verified]

\* every cache entry is a whole key received in some key-set response
WholeKeysCached ==
    \A k \in DOMAIN cache : cache[k] \in history.batchKeys

\* C17 as stated: under every interleaving the cache holds whole keys of
\* key-set responses, one per identifier, and every call that fetched the
\* key set ends as it does when run alone against the response it received.
C17_ConcurrentAsAlone ==
    /\ WholeKeysCached
    /\ \A c \in DOMAIN calls :
          FetchedKeys(calls[c]) => Completion(calls[c]) \in AloneCompletions(calls[c])

\* C17 amended: the same, for the calls whose key-set response holds at
\* least one key; a call whose response is empty resolves no key or a key
\* another call received and cached meanwhile.
C17_ConcurrentAsAloneWithKeys ==
    /\ WholeKeysCached
    /\ \A c \in DOMAIN calls :
          FetchedKeys(calls[c]) =>
             IF calls[c].response[1].data[1].keys # <<>>
             THEN Completion(calls[c]) \in AloneCompletions(calls[c])
             ELSE \/ calls[c].publicKey = None
                  \/ calls[c].publicKey[1] \in history.batchKeys

\* two calls on one validator that both fetched the metadata and the key
\* set for the same kid, the second to resume overwriting the first's entry
C17_Witness ==
    /\ DOMAIN calls = RaceCalls
    /\ \A c \in RaceCalls :
          /\ FetchedKeys(calls[c])
          /\ calls[c].metadataFetches = 1
          /\ calls[c].validator = 1
          /\ calls[c].decodedAccessToken[1].header.kid = "kid1"
          /\ calls[c].response[1].data[1].keys # <<>>
    /\ calls[1].publicKey # calls[2].publicKey

\* the fetch the call awaits has failed
FetchFailed(call, pc) ==
    /\ call.pc = pc
    /\ call.response # None
    /\ ~call.response[1].ok

\* C18: a call whose discovery fetch failed does one thing: it throws the
\* formatted error, with no result and without having decoded the token,
\* whatever the token; the metadata of its instance stays unresolved and the
\* cache stays as it is.
C18_DiscoveryFailureThrows ==
    [][ \A c \in Calls :
           (FetchFailed(calls[c], "loadMetadata") /\ calls'[c] # calls[c])
           => /\ calls'[c].pc = "done"
              /\ calls'[c].threw =
                    Some(throwFormattedError(calls[c].response[1].error[1], None))
              /\ calls'[c].result = None
              /\ calls'[c].decodedAccessToken = None
              /\ calls'[c].keyFetches = 0
              /\ instances[calls[c].validator].metadata = None
              /\ instances' = instances
              /\ cache' = cache
              /\ requests' = requests ]_vars

\* an undecodable token, on a validator whose discovery fetch failed while
\* the cache holds another validator's key
C18_Witness ==
    \E c \in Calls :
        /\ calls[c].pc = "done"
        /\ calls[c].accessToken = Some(Malformed)
        /\ calls[c].metadataFetches = 1
        /\ calls[c].threw # None
        /\ calls[c].result = None
        /\ instances[calls[c].validator].metadata = None
        /\ cache # <<>>

\* C19: a call whose key-set fetch failed does one thing: it throws the
\* formatted error, with no result; and no step of a call changes the cache
\* but the processing of a key-set response that arrived.
C19_KeyFetchFailureThrows ==
    [][ \A c \in Calls :
           /\ (FetchFailed(calls[c], "getPublicKey") /\ calls'[c] # calls[c])
              => /\ calls'[c].pc = "done"
                 /\ calls'[c].threw =
                       Some(throwFormattedError(calls[c].response[1].error[1],
                                                KeysDefaultError))
                 /\ calls'[c].result = None
                 /\ calls'[c].publicKey = None
                 /\ cache' = cache
                 /\ requests' = requests
           /\ ( /\ calls'[c] # calls[c]
                /\ ~( /\ calls[c].pc = "getPublicKey"
                      /\ calls[c].response # None
                      /\ calls[c].response[1].ok ) )
              => cache' = cache ]_vars

\* a call has thrown for its failed key-set fetch while the cache holds a key
C19_Witness ==
    \E c \in Calls :
        /\ calls[c].pc = "done"
        /\ calls[c].keyFetches = 1
        /\ calls[c].threw # None
        /\ calls[c].result = None
        /\ calls[c].decodedAccessToken # None
        /\ cache # <<>>

\* the call is on a token that decodes to a header without a kid
NoKid(call) ==
    /\ call.pc # "idle"
    /\ call.accessToken[1].wellFormed
    /\ call.accessToken[1].header.kid = Absent

\* C20: no step of a call on a decoded token without a kid issues a key-set
\* request or changes the cache, and the call ends returning isValid = FALSE
\* with "Invalid key", unless its discovery fetch failed.
C20_NoKidNoFetch ==
    [][ \A c \in Calls :
           (NoKid(calls'[c]) /\ calls'[c] # calls[c])
           => /\ cache' = cache
              /\ calls'[c].keyFetches = 0
              /\ calls'[c].pc # "getPublicKey"
              /\ \A r \in requests' \ requests : r.request.kind # "keys"
              /\ calls'[c].pc = "done"
                 => \/ FetchFailed(calls[c], "loadMetadata")
                    \/ /\ calls'[c].threw = None
                       /\ calls'[c].result =
                             Some(Result(calls'[c].accessToken[1],
                                         decode(calls'[c].accessToken[1]),
                                         FALSE, KeyMessage)) ]_vars

\* a token without a kid got "Invalid key" without a key-set fetch, the
\* cache holding a key
C20_Witness ==
    \E c \in Calls :
        /\ NoKid(calls[c])
        /\ Returned(calls[c])
        /\ calls[c].result[1].validationMessage = KeyMessage
        /\ calls[c].keyFetches = 0
        /\ cache # <<>>

\* the requests of call c in flight
RequestsOf(c, pending) == {r \in pending : r.call = c}

\* C21: a call issues at most one discovery request and at most one key-set
\* request, never has two requests in flight, and after a failed fetch its
\* one step is to throw, without issuing a request.
C21_NoRetry ==
    [][ \A c \in Calls :
           /\ calls'[c].metadataFetches <= 1
           /\ calls'[c].keyFetches <= 1
           /\ Cardinality(RequestsOf(c, requests')) <= 1
           /\ ( /\ \/ FetchFailed(calls[c], "loadMetadata")
                   \/ FetchFailed(calls[c], "getPublicKey")
                /\ calls'[c] # calls[c] )
              => /\ calls'[c].pc = "done"
                 /\ calls'[c].threw # None
                 /\ calls'[c].result = None
                 /\ calls'[c].metadataFetches = calls[c].metadataFetches
                 /\ calls'[c].keyFetches = calls[c].keyFetches
                 /\ RequestsOf(c, requests') = {} ]_vars

\* a call that made both fetches, the second failing, has thrown
C21_Witness ==
    \E c \in Calls :
        /\ calls[c].pc = "done"
        /\ calls[c].threw # None
        /\ calls[c].metadataFetches = 1
        /\ calls[c].keyFetches = 1
        /\ RequestsOf(c, requests) = {}

\* the step takes call c to the key resolution of a decoded token
ResolvesKey(c) ==
    /\ calls[c].pc \in {"idle", "metadataLoaded"}
    /\ calls'[c].pc \notin {"idle", "loadMetadata"}
    /\ calls'[c].accessToken[1].wellFormed

\* C22: no step removes an identifier from the cache, and a call on any
\* validator that comes to resolve a key identifier present in the cache
\* gets the cached key and issues no key-set request.
C22_SharedCacheNeverEvicted ==
    [][ /\ DOMAIN cache \subseteq DOMAIN cache'
        /\ \A c \in Calls :
              ( /\ ResolvesKey(c)
                /\ calls'[c].accessToken[1].header.kid \in DOMAIN cache )
              => /\ calls'[c].pc = "publicKey"
                 /\ calls'[c].publicKey =
                       Some(cache[calls'[c].accessToken[1].header.kid])
                 /\ calls'[c].keyFetches = 0
                 /\ requests' = requests ]_vars

\* the rule engine was applied to claims that pass the tenant rule, under
\* an allow-list
AllowListApplied ==
    /\ pure.fn = "validateAdditionalClaims"
    /\ pure.out # None
    /\ tenantRule(pure.tokenPayload[1], pure.options[1].tenantId)

ApplicationFails == [isValid |-> FALSE, validationMessage |-> ApplicationMessage]

\* C23 as stated: claims that pass the tenant rule fail with the
\* application message exactly when the allow-list is configured and
\* non-empty and the azp claim, or the appid claim when azp is absent, is
\* absent or not a member of the allow-list.
C23_ApplicationRule ==
    AllowListApplied =>
        LET payload == pure.tokenPayload[1]
            allowed == pure.options[1].allowedApplicationIds
            party == IF payload.azp = Absent THEN payload.appid ELSE payload.azp
        IN  (pure.out[1] = ApplicationFails)
            <=> /\ allowed # None
                /\ allowed[1] # <<>>
                /\ ~(party # Absent /\ party \in Range(allowed[1]))

\* C23 amended: the same with an empty azp claim counting as absent, and an
\* empty application identifier never passing.
C23_ApplicationRuleNonEmpty ==
    AllowListApplied =>
        LET payload == pure.tokenPayload[1]
            allowed == pure.options[1].allowedApplicationIds
            party == IF payload.azp \in {Absent, ""}
                     THEN payload.appid ELSE payload.azp
        IN  (pure.out[1] = ApplicationFails)
            <=> /\ allowed # None
                /\ allowed[1] # <<>>
                /\ ~(party \notin {Absent, ""} /\ party \in Range(allowed[1]))

\* claims with an empty azp and a listed appid pass the application rule
C23_Witness ==
    /\ AllowListApplied
    /\ pure.options[1].allowedApplicationIds = Some(<<"client1">>)
    /\ pure.tokenPayload[1].azp = ""
    /\ pure.tokenPayload[1].appid = "client1"
    /\ pure.out[1] # ApplicationFails

====
